---- MODULE Spec2Model ----
(***************************************************************************)
(* Model of src/main.py: the four order-book walk functions, the           *)
(* concurrent fetch of the two order books, the analysis cycle and the     *)
(* polling loop of main.                                                   *)
(*                                                                         *)
(* Numbers.  The program computes in Python floats.  The model computes in *)
(* exact fixed point: a parsed numeric string is an integer number of      *)
(* 1/Scale units (prices in tenths of a dollar, quantities in tenths of a  *)
(* coin), a product of a price and a quantity is in 1/(Scale*Scale) units. *)
(* Floating-point rounding is therefore not modelled.                      *)
(*                                                                         *)
(* Strings.  A numeric string is a sequence of one-character strings, so   *)
(* that float() is modelled by what it does to the characters.             *)
(***************************************************************************)
EXTENDS Integers, Sequences, FiniteSets, TLC

VARIABLES
    \* ---- locals of the walk function being executed (lines 27-44 etc.)
    fn,            \* which of the four walk functions is executing
    orders,        \* its argument: the raw levels of one book side
    quantity,      \* its argument: the requested quantity
    idx,           \* number of levels the for loop has consumed
    total,         \* total_cost / total_revenue
    remaining,     \* remaining
    price,         \* price of the level handled last
    available,     \* available of the level handled last
    trade_amount,  \* trade_amount of the level handled last
    wpc,           \* position in the walk: "idle", "loop", "done", "error"
    \* ---- the polling loop, the cycle and the fetch (lines 134-205)
    pc,            \* position of main / analyze_prices / fetch_orderbooks
    cycle,         \* number of calls of analyze_prices so far
    req,           \* per exchange: state of its session.get request
    resp,          \* per exchange: the response of its request
    doneOrder,     \* the exchanges in the order their requests completed
    coinbase,      \* local of analyze_prices: decoded Coinbase body
    gemini,        \* local of analyze_prices: decoded Gemini body
    results,       \* per walk function: the (value, filled) it returned
    summary,       \* what the SUMMARY block printed
    logged,        \* exception logged by main's "except Exception" handler
    exc,           \* exception propagating to main's handlers
    goodbye,       \* main's "except KeyboardInterrupt" handler has printed
    interruptedAt  \* where main was when the interrupt was delivered

walkVars  == <<fn, orders, quantity, idx, total, remaining, price, available,
               trade_amount, wpc>>
cycleVars == <<pc, cycle, req, resp, doneOrder, coinbase, gemini, results,
               summary, exc, logged, goodbye, interruptedAt>>
vars      == <<fn, orders, quantity, idx, total, remaining, price, available,
               trade_amount, wpc, pc, cycle, req, resp, doneOrder, coinbase,
               gemini, results, summary, exc, logged, goodbye, interruptedAt>>

----------------------------------------------------------------------------
(* Bounds of the model *)

MaxLevels == 2      \* longest book side drawn for a stand-alone walk
MaxQty    == 5      \* largest requested quantity (in coins) drawn for a walk
MaxCycles == 2      \* number of polling cycles explored

(* Representation of floats: values are integers in units of 1/Scale *)
Scale == 10

(* quantity = 10.0 in analyze_prices, in units of 1/Scale *)
Quantity == 100

None == "None"

\* value of a local that holds a record and has not been assigned
Unassigned == [unassigned |-> TRUE]

----------------------------------------------------------------------------
(* float(): parsing of a numeric string *)

Digits == {"0", "1", "2", "3", "4", "5", "6", "7", "8", "9"}

DigitVal(c) ==
    CASE c = "0" -> 0 [] c = "1" -> 1 [] c = "2" -> 2 [] c = "3" -> 3
      [] c = "4" -> 4 [] c = "5" -> 5 [] c = "6" -> 6 [] c = "7" -> 7
      [] c = "8" -> 8 [] c = "9" -> 9

RECURSIVE DigitsValue(_)
DigitsValue(ds) ==
    IF ds = <<>> THEN 0
    ELSE DigitsValue(SubSeq(ds, 1, Len(ds) - 1)) * 10 + DigitVal(ds[Len(ds)])

DotPositions(s) == {i \in 1..Len(s) : s[i] = "."}

\* the strings float() accepts, among strings of digits, dots and other
\* characters (signs, exponents, "inf", "nan", blanks and underscores are
\* outside the alphabet of the model)
IsNumeric(s) ==
    /\ \A i \in 1..Len(s) : s[i] \in Digits \cup {"."}
    /\ Cardinality(DotPositions(s)) <= 1
    /\ \E i \in 1..Len(s) : s[i] \in Digits

IntPart(s) ==
    IF DotPositions(s) = {} THEN s
    ELSE SubSeq(s, 1, (CHOOSE i \in DotPositions(s) : TRUE) - 1)

FracPart(s) ==
    IF DotPositions(s) = {} THEN <<>>
    ELSE SubSeq(s, (CHOOSE i \in DotPositions(s) : TRUE) + 1, Len(s))

\* the first fractional digit, in units of 1/Scale (the strings of the model
\* have at most one fractional digit, so nothing is lost)
FracValue(fs) == IF fs = <<>> THEN 0 ELSE DigitVal(fs[1])

\* float(s): [ok |-> TRUE, val |-> value * Scale], or ok = FALSE for the
\* ValueError float() raises on a malformed string
ParseFloat(s) ==
    IF IsNumeric(s)
    THEN [ok |-> TRUE,
          val |-> DigitsValue(IntPart(s)) * Scale + FracValue(FracPart(s))]
    ELSE [ok |-> FALSE, val |-> 0]

----------------------------------------------------------------------------
(* The four walk functions *)

CoinbaseFns == {"calculate_coinbase_buy_cost", "calculate_coinbase_sell_revenue"}
GeminiFns   == {"calculate_gemini_buy_cost", "calculate_gemini_sell_revenue"}
WalkFns     == CoinbaseFns \cup GeminiFns

Min(a, b) == IF a <= b THEN a ELSE b

\* price = float(price_str)            (Coinbase: level is [price, size, n])
\* price = float(order['price'])       (Gemini: level is {price, amount})
LevelPrice(f, level) ==
    IF f \in CoinbaseFns THEN ParseFloat(level[1]) ELSE ParseFloat(level.price)

\* a plausible slip: the Coinbase level's order count is left out
LevelAvailable_NoOrderCount(f, level) ==
    IF f \in CoinbaseFns THEN ParseFloat(level[2]) ELSE ParseFloat(level.amount)

\* available = float(size_str) * num_orders      (Coinbase)
\* available = float(order['amount'])            (Gemini)
LevelAvailable(f, level) ==
    IF f \in CoinbaseFns
    THEN [ok  |-> ParseFloat(level[2]).ok,
          val |-> ParseFloat(level[2]).val * level[3]]
    ELSE ParseFloat(level.amount)

\* a plausible slip: max instead of min
TradeAmount_Max(avail, rem) == IF avail >= rem THEN avail ELSE rem

\* a plausible slip: the level is taken whole, whatever is still wanted
TradeAmount_WholeLevel(avail, rem) == avail

\* trade_amount = min(available, remaining)
TradeAmount(avail, rem) == Min(avail, rem)

\* a plausible slip: "=" instead of "+="
Accumulate_Assign(tot, amount, p) == amount * p

\* cost_at_level = trade_amount * price ; total_cost += cost_at_level
Accumulate(tot, amount, p) == tot + amount * p

\* if remaining <= 0: break     (tested before the level's fields are parsed)
LoopBreaks(rem) == rem <= 0

\* the whole function as one recursive operator: the result of the for loop
\* started at level i with the given running totals;
\* [ok |-> TRUE, value, filled] for "return total, quantity - remaining",
\* ok = FALSE when float() raises
RECURSIVE WalkFrom(_, _, _, _, _, _)
WalkFrom(f, os, q, i, tot, rem) ==
    IF i > Len(os) \/ LoopBreaks(rem)
    THEN [ok |-> TRUE, value |-> tot, filled |-> q - rem]
    ELSE IF ~LevelPrice(f, os[i]).ok \/ ~LevelAvailable(f, os[i]).ok
    THEN [ok |-> FALSE, value |-> 0, filled |-> 0]
    ELSE LET p == LevelPrice(f, os[i]).val
             a == LevelAvailable(f, os[i]).val
             t == TradeAmount(a, rem)
         IN  WalkFrom(f, os, q, i + 1, Accumulate(tot, t, p), rem - t)

Walk(f, os, q) == WalkFrom(f, os, q, 1, 0, q)

\* ---- the same function, one loop iteration per step

\* total = 0 ; remaining = quantity
EnterWalk(f, os, q) ==
    /\ fn' = f
    /\ orders' = os
    /\ quantity' = q
    /\ idx' = 0
    /\ total' = 0
    /\ remaining' = q
    /\ price' = 0
    /\ available' = 0
    /\ trade_amount' = 0
    /\ wpc' = "loop"

\* the for loop runs out of levels: return total, quantity - remaining
WalkExhausted ==
    /\ wpc = "loop"
    /\ idx = Len(orders)
    /\ wpc' = "done"
    /\ UNCHANGED <<fn, orders, quantity, idx, total, remaining, price,
                   available, trade_amount>>
    /\ UNCHANGED cycleVars

\* if remaining <= 0: break ; return total, quantity - remaining
WalkBreak ==
    /\ wpc = "loop"
    /\ idx < Len(orders)
    /\ LoopBreaks(remaining)
    /\ wpc' = "done"
    /\ UNCHANGED <<fn, orders, quantity, idx, total, remaining, price,
                   available, trade_amount>>
    /\ UNCHANGED cycleVars

\* a plausible slip: a level that does not parse is skipped
WalkParseError_SkipLevel ==
    /\ wpc = "loop"
    /\ idx < Len(orders)
    /\ ~LoopBreaks(remaining)
    /\ \/ ~LevelPrice(fn, orders[idx + 1]).ok
       \/ ~LevelAvailable(fn, orders[idx + 1]).ok
    /\ idx' = idx + 1
    /\ UNCHANGED <<fn, orders, quantity, total, remaining, price, available,
                   trade_amount, wpc>>
    /\ UNCHANGED cycleVars

\* float() raises ValueError on a field of the level: the function is left
\* by the exception
WalkParseError ==
    /\ wpc = "loop"
    /\ idx < Len(orders)
    /\ ~LoopBreaks(remaining)
    /\ \/ ~LevelPrice(fn, orders[idx + 1]).ok
       \/ ~LevelAvailable(fn, orders[idx + 1]).ok
    /\ wpc' = "error"
    /\ UNCHANGED <<fn, orders, quantity, idx, total, remaining, price,
                   available, trade_amount>>
    /\ UNCHANGED cycleVars

\* one iteration of the loop body
WalkLevel ==
    /\ wpc = "loop"
    /\ idx < Len(orders)
    /\ ~LoopBreaks(remaining)
    /\ LevelPrice(fn, orders[idx + 1]).ok
    /\ LevelAvailable(fn, orders[idx + 1]).ok
    /\ LET p == LevelPrice(fn, orders[idx + 1]).val
           a == LevelAvailable(fn, orders[idx + 1]).val
           t == TradeAmount(a, remaining)
       IN  /\ price' = p
           /\ available' = a
           /\ trade_amount' = t
           /\ total' = Accumulate(total, t, p)
           /\ remaining' = remaining - t
    /\ idx' = idx + 1
    /\ UNCHANGED <<fn, orders, quantity, wpc>>
    /\ UNCHANGED cycleVars

----------------------------------------------------------------------------
(* Inputs of a stand-alone walk *)

s100   == <<"1", "0", "0">>
s110   == <<"1", "1", "0">>
s100_5 == <<"1", "0", "0", ".", "5">>
s0     == <<"0">>
s1     == <<"1">>
s2     == <<"2">>
s3     == <<"3">>
s5     == <<"5">>
s2_0   == <<"2", ".", "0">>
s3_2   == <<"3", ".", "2">>
sBad   == <<"x">>

\* raw Coinbase levels [price, size, num_orders]: the well-formed ones, one
\* with a malformed price and one with a malformed size
CoinbaseLevels ==
    {<<p, s, n>> : p \in {s100, s100_5}, s \in {s1, s2_0}, n \in {1, 3}}
    \cup {<<sBad, s1, 1>>, <<s100, sBad, 3>>}

\* raw Gemini levels {price, amount}: the well-formed ones, one with a
\* malformed price and one with a malformed amount
GeminiLevels ==
    {[price |-> p, amount |-> a] : p \in {s100, s110, s100_5},
                                   a \in {s0, s2, s3, s3_2}}
    \cup {[price |-> sBad, amount |-> s2], [price |-> s110, amount |-> sBad]}

SeqsUpTo(S, n) == UNION {[1..k -> S] : k \in 0..n}

RawLevels(f) == IF f \in CoinbaseFns THEN CoinbaseLevels ELSE GeminiLevels

Exchanges == {"coinbase", "gemini"}

\* no walk is executing
WalkIdle ==
    /\ fn = None /\ orders = <<>> /\ quantity = 0 /\ idx = 0 /\ total = 0
    /\ remaining = 0 /\ price = 0 /\ available = 0 /\ trade_amount = 0
    /\ wpc = "idle"

\* the frame of the walk function is discarded
LeaveWalk ==
    /\ fn' = None /\ orders' = <<>> /\ quantity' = 0 /\ idx' = 0 /\ total' = 0
    /\ remaining' = 0 /\ price' = 0 /\ available' = 0 /\ trade_amount' = 0
    /\ wpc' = "idle"

NoResults == [f \in WalkFns |-> Unassigned]

\* the loop of main is not running: a walk function is called on its own
CycleIdle ==
    /\ pc = "standalone" /\ cycle = 0
    /\ req = [e \in Exchanges |-> "none"] /\ resp = [e \in Exchanges |-> Unassigned]
    /\ doneOrder = <<>> /\ coinbase = Unassigned /\ gemini = Unassigned
    /\ results = NoResults /\ summary = Unassigned /\ exc = None /\ logged = None
    /\ goodbye = FALSE /\ interruptedAt = None

\* a walk function called with a book side and a quantity
InitWalk ==
    /\ CycleIdle
    /\ fn \in WalkFns
    /\ orders \in SeqsUpTo(RawLevels(fn), MaxLevels)
    /\ quantity \in {q * Scale : q \in 0..MaxQty}
    /\ idx = 0 /\ total = 0 /\ remaining = quantity
    /\ price = 0 /\ available = 0 /\ trade_amount = 0
    /\ wpc = "loop"

NextWalk == WalkExhausted \/ WalkBreak \/ WalkParseError \/ WalkLevel

SpecWalk == InitWalk /\ [][NextWalk]_vars

----------------------------------------------------------------------------
(* The fetch, the analysis cycle and the polling loop *)

s10 == <<"1", "0">>
s12 == <<"1", "2">>

\* book sides an exchange may answer with.  With quantity = 10.0:
\*   A fills 6.0 at 100.5 and 4.0 at 110; B fills at its first level and has a
\*   malformed level behind it; C and D have a malformed level within reach
\*   (second, first); E has too little depth.
CycleCoinbaseSides ==
    { << <<s100_5, s2_0, 3>>, <<s110, s5, 1>> >>,
      << <<s100, s5, 3>>, <<sBad, s1, 1>> >>,
      << <<s100, s1, 1>>, <<s100, sBad, 1>> >>,
      << <<sBad, s1, 1>>, <<s100, s5, 3>> >>,
      << <<s100, s1, 1>> >> }

CycleGeminiSides ==
    { << [price |-> s100, amount |-> s10] >>,
      << [price |-> s110, amount |-> s12], [price |-> s110, amount |-> sBad] >>,
      << [price |-> s100, amount |-> s2], [price |-> sBad, amount |-> s3] >>,
      << [price |-> s100_5, amount |-> s3_2] >> }

CycleSides(e) == IF e = "coinbase" THEN CycleCoinbaseSides ELSE CycleGeminiSides

\* what a request can be answered with: a body with asks and bids, a JSON
\* body without them (an error document), or a body that is not JSON.
\* src and cycle record which request the response answers.
Responses(e, c) ==
    {[src |-> e, cycle |-> c, kind |-> "book", asks |-> a, bids |-> b] :
        a \in CycleSides(e), b \in CycleSides(e)}
    \cup {[src |-> e, cycle |-> c, kind |-> k, asks |-> <<>>, bids |-> <<>>] :
        k \in {"no_book", "bad_json"}}

WalkPcs  == {"buy_cb", "buy_gem", "sell_cb", "sell_gem"}
AwaitPcs == {"gather", "json_cb", "json_gem", "sleep"}
InTryPcs == WalkPcs \cup AwaitPcs \cup {"summary"}

\* the walk function called at a position of analyze_prices, and its argument
FnAt(p) ==
    CASE p = "buy_cb"   -> "calculate_coinbase_buy_cost"
      [] p = "buy_gem"  -> "calculate_gemini_buy_cost"
      [] p = "sell_cb"  -> "calculate_coinbase_sell_revenue"
      [] p = "sell_gem" -> "calculate_gemini_sell_revenue"

BookAt(p) == IF p \in {"buy_cb", "sell_cb"} THEN coinbase ELSE gemini

SideAt(p) == IF p \in {"buy_cb", "buy_gem"} THEN BookAt(p).asks ELSE BookAt(p).bids

AfterWalk(p) ==
    CASE p = "buy_cb"   -> "buy_gem"
      [] p = "buy_gem"  -> "sell_cb"
      [] p = "sell_cb"  -> "sell_gem"
      [] p = "sell_gem" -> "summary"

\* the frames of analyze_prices and of what it called are discarded
Unwind ==
    /\ LeaveWalk
    /\ req' = [e \in Exchanges |-> "none"]
    /\ resp' = [e \in Exchanges |-> Unassigned]
    /\ doneOrder' = <<>>
    /\ coinbase' = Unassigned
    /\ gemini' = Unassigned
    /\ results' = NoResults
    /\ summary' = Unassigned

\* an exception (not KeyboardInterrupt) leaves analyze_prices: the try
\* statement of main, which encloses the while loop, takes it
Raise(e) ==
    /\ pc' = "except_Exception"
    /\ exc' = e
    /\ Unwind
    /\ UNCHANGED <<cycle, logged, goodbye, interruptedAt>>

\* a plausible slip: the requests are awaited one after the other
Issuable_Sequential(e) ==
    /\ pc = "gather"
    /\ req[e] = "created"
    /\ e = "gemini" => req["coinbase"] = "done"

\* asyncio.gather schedules every awaitable it is given at once
Issuable(e) ==
    /\ pc = "gather"
    /\ req[e] = "created"

\* a plausible slip: the responses are taken in the order of completion
GatherResults_CompletionOrder == <<resp[doneOrder[1]], resp[doneOrder[2]]>>

\* coinbase_response, gemini_response = await asyncio.gather(...): the
\* results come in the order of the arguments
GatherResults == <<resp["coinbase"], resp["gemini"]>>

\* main enters the loop, or asyncio.sleep(10) returns: analyze_prices is
\* called, opens a session and creates the two requests
StartCycle ==
    /\ pc \in {"start", "sleep"}
    /\ cycle < MaxCycles
    /\ cycle' = cycle + 1
    /\ pc' = "gather"
    /\ req' = [e \in Exchanges |-> "created"]
    /\ resp' = [e \in Exchanges |-> Unassigned]
    /\ doneOrder' = <<>>
    /\ coinbase' = Unassigned
    /\ gemini' = Unassigned
    /\ results' = NoResults
    /\ summary' = Unassigned
    /\ UNCHANGED <<exc, logged, goodbye, interruptedAt>>
    /\ UNCHANGED walkVars

\* the task of a request starts: the request is in flight
IssueRequest(e) ==
    /\ Issuable(e)
    /\ req' = [req EXCEPT ![e] = "inflight"]
    /\ UNCHANGED <<pc, cycle, resp, doneOrder, coinbase, gemini, results,
                   summary, exc, logged, goodbye, interruptedAt>>
    /\ UNCHANGED walkVars

\* the response of a request arrives (the event loop has run every task that
\* was ready before it polls the network)
ReceiveResponse(e) ==
    /\ pc = "gather"
    /\ req[e] = "inflight"
    /\ \A e2 \in Exchanges : ~Issuable(e2)
    /\ \E r \in Responses(e, cycle) : resp' = [resp EXCEPT ![e] = r]
    /\ req' = [req EXCEPT ![e] = "done"]
    /\ doneOrder' = Append(doneOrder, e)
    /\ UNCHANGED <<pc, cycle, coinbase, gemini, results, summary, exc, logged,
                   goodbye, interruptedAt>>
    /\ UNCHANGED walkVars

\* a request fails in the transport: gather raises its exception at once
RequestFails(e) ==
    /\ pc = "gather"
    /\ req[e] = "inflight"
    /\ \A e2 \in Exchanges : ~Issuable(e2)
    /\ Raise("ClientError")

\* gather returns when both requests are done
GatherReturns ==
    /\ pc = "gather"
    /\ \A e \in Exchanges : req[e] = "done"
    /\ pc' = "json_cb"
    /\ UNCHANGED <<cycle, req, resp, doneOrder, coinbase, gemini, results,
                   summary, exc, logged, goodbye, interruptedAt>>
    /\ UNCHANGED walkVars

\* coinbase = await coinbase_response.json()
ReadCoinbaseJson ==
    /\ pc = "json_cb"
    /\ IF GatherResults[1].kind = "bad_json"
       THEN Raise("JSONError")
       ELSE /\ coinbase' = GatherResults[1]
            /\ pc' = "json_gem"
            /\ UNCHANGED <<cycle, req, resp, doneOrder, gemini, results,
                           summary, exc, logged, goodbye, interruptedAt>>
            /\ UNCHANGED walkVars

\* gemini = await gemini_response.json() ; return coinbase, gemini
ReadGeminiJson ==
    /\ pc = "json_gem"
    /\ IF GatherResults[2].kind = "bad_json"
       THEN Raise("JSONError")
       ELSE /\ gemini' = GatherResults[2]
            /\ pc' = "buy_cb"
            /\ UNCHANGED <<cycle, req, resp, doneOrder, coinbase, results,
                           summary, exc, logged, goodbye, interruptedAt>>
            /\ UNCHANGED walkVars

\* calculate_..._(coinbase['asks'], quantity) and the three other calls
CallWalk ==
    /\ pc \in WalkPcs
    /\ wpc = "idle"
    /\ IF BookAt(pc).kind = "no_book"
       THEN Raise("KeyError")
       ELSE /\ EnterWalk(FnAt(pc), SideAt(pc), Quantity)
            /\ UNCHANGED cycleVars

\* cb_buy_cost, cb_buy_filled = ... and the three other assignments
WalkReturns ==
    /\ pc \in WalkPcs
    /\ wpc = "done"
    /\ results' = [results EXCEPT ![fn] =
                       [value |-> total, filled |-> quantity - remaining]]
    /\ pc' = AfterWalk(pc)
    /\ LeaveWalk
    /\ UNCHANGED <<cycle, req, resp, doneOrder, coinbase, gemini, summary, exc,
                   logged, goodbye, interruptedAt>>

\* the ValueError of float() leaves the walk function and analyze_prices
WalkRaises ==
    /\ pc \in WalkPcs
    /\ wpc = "error"
    /\ Raise("ValueError")

\* the SUMMARY block: the exchange named and the difference printed with it
Summary ==
    /\ pc = "summary"
    /\ LET cb_buy_cost      == results["calculate_coinbase_buy_cost"].value
           gem_buy_cost     == results["calculate_gemini_buy_cost"].value
           cb_sell_revenue  == results["calculate_coinbase_sell_revenue"].value
           gem_sell_revenue == results["calculate_gemini_sell_revenue"].value
       IN  summary' =
             [buy  |-> IF cb_buy_cost < gem_buy_cost
                       THEN [best |-> "Coinbase",
                             cheaper |-> cb_buy_cost - gem_buy_cost]
                       ELSE [best |-> "Gemini",
                             cheaper |-> gem_buy_cost - cb_buy_cost],
              sell |-> IF cb_sell_revenue > gem_sell_revenue
                       THEN [best |-> "Coinbase",
                             more |-> cb_sell_revenue - gem_sell_revenue]
                       ELSE [best |-> "Gemini",
                             more |-> gem_sell_revenue - cb_sell_revenue]]
    /\ pc' = "sleep"
    /\ UNCHANGED <<cycle, req, resp, doneOrder, coinbase, gemini, results, exc,
                   logged, goodbye, interruptedAt>>
    /\ UNCHANGED walkVars

\* a plausible slip: the handler sits inside the loop, which goes on
ExceptException_InsideLoop ==
    /\ pc = "except_Exception"
    /\ logged' = exc
    /\ exc' = None
    /\ pc' = "sleep"
    /\ UNCHANGED <<cycle, req, resp, doneOrder, coinbase, gemini, results,
                   summary, goodbye, interruptedAt>>
    /\ UNCHANGED walkVars

\* except Exception as e: logger.error(...) -- the try statement encloses the
\* while loop, so after the handler main returns
ExceptException ==
    /\ pc = "except_Exception"
    /\ logged' = exc
    /\ exc' = None
    /\ pc' = "returned"
    /\ UNCHANGED <<cycle, req, resp, doneOrder, coinbase, gemini, results,
                   summary, goodbye, interruptedAt>>
    /\ UNCHANGED walkVars

\* the interrupt is raised as KeyboardInterrupt in the code of main's task:
\* wherever that is inside the try statement, a fetch included
KeyboardInterruptRaised ==
    /\ pc \in InTryPcs
    /\ interruptedAt' = pc
    /\ pc' = "except_KeyboardInterrupt"
    /\ Unwind
    /\ UNCHANGED <<cycle, exc, logged, goodbye>>

\* the interrupt reaches main as the cancellation of its task by asyncio.run:
\* CancelledError is raised at the await where main is suspended, and neither
\* handler of main takes it
TaskCancelled ==
    /\ pc \in AwaitPcs
    /\ interruptedAt' = pc
    /\ pc' = "cancelled"
    /\ Unwind
    /\ UNCHANGED <<cycle, exc, logged, goodbye>>

\* a plausible slip: the handler sits inside the loop, which goes on
ExceptKeyboardInterrupt_InsideLoop ==
    /\ pc = "except_KeyboardInterrupt"
    /\ goodbye' = TRUE
    /\ pc' = "sleep"
    /\ UNCHANGED <<cycle, req, resp, doneOrder, coinbase, gemini, results,
                   summary, exc, logged, interruptedAt>>
    /\ UNCHANGED walkVars

\* except KeyboardInterrupt: print("Stopping price analyzer. Goodbye!")
ExceptKeyboardInterrupt ==
    /\ pc = "except_KeyboardInterrupt"
    /\ goodbye' = TRUE
    /\ pc' = "returned"
    /\ UNCHANGED <<cycle, req, resp, doneOrder, coinbase, gemini, results,
                   summary, exc, logged, interruptedAt>>
    /\ UNCHANGED walkVars

\* run(): main is about to enter its try statement
Init ==
    /\ WalkIdle
    /\ pc = "start" /\ cycle = 0
    /\ req = [e \in Exchanges |-> "none"] /\ resp = [e \in Exchanges |-> Unassigned]
    /\ doneOrder = <<>> /\ coinbase = Unassigned /\ gemini = Unassigned
    /\ results = NoResults /\ summary = Unassigned /\ exc = None /\ logged = None
    /\ goodbye = FALSE /\ interruptedAt = None

Next ==
    \/ StartCycle
    \/ \E e \in Exchanges : IssueRequest(e)
    \/ \E e \in Exchanges : ReceiveResponse(e)
    \/ \E e \in Exchanges : RequestFails(e)
    \/ GatherReturns
    \/ ReadCoinbaseJson
    \/ ReadGeminiJson
    \/ CallWalk
    \/ WalkExhausted
    \/ WalkBreak
    \/ WalkParseError
    \/ WalkLevel
    \/ WalkReturns
    \/ WalkRaises
    \/ Summary
    \/ ExceptException
    \/ KeyboardInterruptRaised
    \/ TaskCancelled
    \/ ExceptKeyboardInterrupt

Spec == Init /\ [][Next]_vars

\* a walk function called on its own, or the whole program
InitAll == Init \/ InitWalk

SpecAll == InitAll /\ [][Next]_vars

----------------------------------------------------------------------------
(* Properties of the walk functions, checked under SpecWalk *)

\* the normalised level the specification speaks of
SpecPrice(f, level) ==
    IF f \in CoinbaseFns THEN ParseFloat(level[1]).val
    ELSE ParseFloat(level.price).val

SpecAvailable(f, level) ==
    IF f \in CoinbaseFns THEN ParseFloat(level[2]).val * level[3]
    ELSE ParseFloat(level.amount).val

FieldsOf(f, level) ==
    IF f \in CoinbaseFns THEN {level[1], level[2]}
    ELSE {level.price, level.amount}

Malformed(f, level) == \E s \in FieldsOf(f, level) : ~ParseFloat(s).ok

AllWellFormed(f, os) == \A i \in 1..Len(os) : ~Malformed(f, os[i])

\* sum over the levels i.. of price * min(available, unfilled before it)
RECURSIVE ExpectedTotal(_, _, _, _)
ExpectedTotal(f, os, i, unfilled) ==
    IF i > Len(os) THEN 0
    ELSE LET t == Min(SpecAvailable(f, os[i]), unfilled)
         IN  SpecPrice(f, os[i]) * t + ExpectedTotal(f, os, i + 1, unfilled - t)

\* aggregate depth of the levels 1..n
RECURSIVE Depth(_, _, _)
Depth(f, os, n) ==
    IF n = 0 THEN 0 ELSE Depth(f, os, n - 1) + SpecAvailable(f, os[n])

\* value of all the levels
RECURSIVE FullValue(_, _, _)
FullValue(f, os, n) ==
    IF n = 0 THEN 0
    ELSE FullValue(f, os, n - 1) + SpecPrice(f, os[n]) * SpecAvailable(f, os[n])

Example420 == <<[price |-> s100, amount |-> s2], [price |-> s110, amount |-> s3]>>

\* C1: a walk over well-formed levels returns as total value the sum, over
\* the levels in the given order, of price * min(available quantity of the
\* level, quantity still unfilled before it); levels [(100, 2), (110, 3)]
\* with requested quantity 4 give (420, 4).
C1_TotalIsSumOfLevelTrades ==
    (wpc = "done" /\ AllWellFormed(fn, orders)) =>
        /\ total = ExpectedTotal(fn, orders, 1, quantity)
        /\ (orders = Example420 /\ quantity = 4 * Scale) =>
               (total = 420 * Scale * Scale /\ quantity - remaining = 4 * Scale)

C1_Witness ==
    /\ wpc = "done" /\ fn \in GeminiFns /\ orders = Example420
    /\ quantity = 4 * Scale /\ idx = 2 /\ total = 420 * Scale * Scale

\* C2: at every step of a walk 0 <= remaining <= requested quantity, and the
\* filled quantity returned satisfies 0 <= filled <= requested quantity.
C2_FilledWithinRequest ==
    (wpc \in {"loop", "done"}) =>
        /\ 0 <= remaining /\ remaining <= quantity
        /\ 0 <= quantity - remaining /\ quantity - remaining <= quantity

C2_Witness ==
    /\ wpc = "done" /\ idx = 2
    /\ 0 < quantity - remaining /\ quantity - remaining < quantity

\* C3: the filled quantity is min(requested quantity, aggregate depth); with
\* too little depth (the empty book included) the walk returns normally with
\* the whole depth filled and the value of all the levels, and raises nothing.
C3_FilledIsMinOfRequestAndDepth ==
    AllWellFormed(fn, orders) =>
        /\ wpc # "error"
        /\ wpc = "done" =>
            /\ quantity - remaining = Min(quantity, Depth(fn, orders, Len(orders)))
            /\ Depth(fn, orders, Len(orders)) < quantity =>
                   total = FullValue(fn, orders, Len(orders))
            /\ orders = <<>> => (total = 0 /\ quantity - remaining = 0)

C3_Witness ==
    /\ wpc = "done" /\ fn \in CoinbaseFns /\ orders = << <<s100, s1, 1>> >>
    /\ quantity = 5 * Scale /\ total = 100 * Scale * Scale
    /\ quantity - remaining = 1 * Scale

\* C4: with the book side fixed, the total value is non-decreasing in the
\* requested quantity: every smaller request returns at most the total of
\* the walk just finished.
C4_TotalMonotoneInQuantity ==
    (wpc = "done") =>
        \A q1 \in 0..quantity :
            LET r == Walk(fn, orders, q1) IN r.ok /\ r.value <= total

C4_Witness ==
    /\ wpc = "done" /\ idx = 2 /\ quantity > 0
    /\ SpecPrice(fn, orders[2]) < SpecPrice(fn, orders[1])
    /\ Walk(fn, orders, quantity - 1).value < total

\* C5: the quantity a level offers is size * order_count for a Coinbase level
\* and amount for a Gemini level, at the level's price, the levels being
\* handled in the order given: ("100.5", "2.0", 3) offers 6.0 at 100.5 and
\* {price: "100.5", amount: "3.2"} offers 3.2 at 100.5.
C5_AvailableQuantityOfLevel ==
    (idx > 0) =>
        /\ price = SpecPrice(fn, orders[idx])
        /\ available = SpecAvailable(fn, orders[idx])
        /\ (fn \in CoinbaseFns /\ orders[idx] = <<s100_5, s2_0, 3>>) =>
               (price = 1005 /\ available = 60)
        /\ (fn \in GeminiFns /\ orders[idx] = [price |-> s100_5, amount |-> s3_2]) =>
               (price = 1005 /\ available = 32)

C5_Witness ==
    /\ fn \in CoinbaseFns /\ idx = 2 /\ orders[2] = <<s100_5, s2_0, 3>>
    /\ orders[1] = <<s100, s1, 1>> /\ price = 1005 /\ available = 60

----------------------------------------------------------------------------
(* Properties of the cycle and of the polling loop *)

FetchPcs == {"gather", "json_cb", "json_gem"}

\* C6 as stated: after a cycle has failed with an exception that main has
\* logged, the polling loop is still running (a later cycle is executed).
C6_LoopContinuesAfterFailure ==
    (logged # None) => (pc \in InTryPcs)

\* C6 as amended: an exception other than KeyboardInterrupt that leaves a
\* cycle is logged by main's handler and ends the loop: main returns and no
\* later cycle is executed.
C6_FailureIsLoggedAndEndsLoop ==
    [][ /\ logged = None
        /\ (pc = "except_Exception") =>
               (pc' = "returned" /\ logged' = exc /\ cycle' = cycle) ]_vars

C6_Witness ==
    /\ pc = "returned" /\ logged = "KeyError" /\ cycle = 1 /\ cycle < MaxCycles

MalformedWithinReach(f, os, q) ==
    \E j \in 1..Len(os) :
        /\ Malformed(f, os[j])
        /\ \A k \in 1..(j - 1) : ~Malformed(f, os[k])
        /\ q > 0
        /\ Depth(f, os, j - 1) < q

C8_ConcurrentFetchJoinedBeforeWalks ==
    /\ (pc = "gather" /\ \E e \in Exchanges : req[e] = "done") =>
           \A e \in Exchanges : req[e] \in {"inflight", "done"}
    /\ (pc \in (FetchPcs \ {"gather"}) \cup WalkPcs \cup {"summary"}) =>
           \A e \in Exchanges : req[e] = "done"
    /\ (pc \in WalkPcs \cup {"summary"}) =>
           /\ coinbase # Unassigned /\ coinbase.src = "coinbase" /\ coinbase.cycle = cycle
           /\ gemini # Unassigned /\ gemini.src = "gemini" /\ gemini.cycle = cycle
    /\ (pc \in WalkPcs /\ wpc # "idle") =>
           /\ fn = FnAt(pc)
           /\ fn = "calculate_coinbase_buy_cost" => orders = coinbase.asks
           /\ fn = "calculate_gemini_buy_cost" => orders = gemini.asks
           /\ fn = "calculate_coinbase_sell_revenue" => orders = coinbase.bids
           /\ fn = "calculate_gemini_sell_revenue" => orders = gemini.bids
    /\ (coinbase # Unassigned) => coinbase.src = "coinbase"
    /\ (gemini # Unassigned) => gemini.src = "gemini"

C8_Witness ==
    /\ pc = "sell_gem" /\ wpc = "loop" /\ idx > 0
    /\ doneOrder = <<"gemini", "coinbase">>

\* C9 as stated: the interrupt ends the loop between cycles only (it does not
\* abort a cycle in the middle of its fetch), and when the loop has stopped
\* the goodbye handler of main has run.
C9_InterruptOnlyBetweenCycles ==
    (interruptedAt # None) =>
        /\ interruptedAt \notin FetchPcs
        /\ (pc \in {"returned", "cancelled"}) => goodbye

\* C9 as amended: the interrupt ends the loop wherever main is, the middle of
\* a fetch included, whose cycle is then abandoned; from its delivery on no
\* new cycle is started; the goodbye handler runs when the interrupt is
\* raised as KeyboardInterrupt inside the try statement of main, and does not
\* run when the interrupt arrives as the cancellation of main's task.
C9_InterruptEndsLoopAnywhere ==
    /\ [](interruptedAt # None =>
            /\ pc \in {"except_KeyboardInterrupt", "returned", "cancelled"}
            /\ \A e \in Exchanges : req[e] = "none"
            /\ wpc = "idle" /\ results = NoResults)
    /\ [](goodbye => (interruptedAt # None /\ pc = "returned"))
    /\ [](pc = "cancelled" => ~goodbye)
    /\ [][ (interruptedAt # None) =>
               /\ cycle' = cycle
               /\ pc = "except_KeyboardInterrupt"
               /\ pc' = "returned"
               /\ goodbye' ]_vars

C9_Witness ==
    /\ pc = "returned" /\ goodbye /\ interruptedAt = "gather"
    /\ cycle < MaxCycles

\* C10: whichever exchange the summary names as the best place to buy
\* (to sell), the difference printed with it as cheaper (more) is not
\* negative.
C10_SummaryDifferencesNonNegative ==
    (summary # Unassigned) =>
        /\ summary.buy.cheaper >= 0
        /\ summary.sell.more >= 0

====
